---- MODULE Spec2Model ----
(***************************************************************************)
(* Model of codex-rs/core: the ConversationManager (conversation registry  *)
(* behind a tokio RwLock, the spawn / first-event validation protocol) and *)
(* the pure history truncation helpers used by fork and rollback.          *)
(*                                                                         *)
(* Two specifications share the module:                                    *)
(*   Spec      - the ConversationManager driven by concurrent callers;     *)
(*   SpecTrunc - the truncation helpers applied to bounded inputs.         *)
(***************************************************************************)
EXTENDS Integers, Sequences, FiniteSets, TLC

VARIABLES
    \* ---- ConversationManager (conversation_manager.rs) ----
    conversations,   \* the HashMap behind self.conversations: id -> handle
    lock,            \* the tokio RwLock: [writer, readers]
    spawned,         \* how many sessions the Spawner has started so far
    pc,              \* per caller: where its future is suspended
    op,              \* per caller: the operation it is running
    arg,             \* per caller: arguments [id, path, n]
    history,         \* per caller: the InitialHistory handed to Codex::spawn
    local,           \* per caller: [loaded, codex, conversation_id, event]
    result,          \* per caller: what the operation returned
    live,            \* per id: handle of the last successful creation not yet removed
    \* ---- history_truncation.rs, applied to explicit inputs ----
    rollout_in,      \* input of truncate_rollout_before_nth_user_message_from_start
    items_in,        \* input of drop_last_n_user_turns_from_response_items
    call,            \* the last call made: [fn, n]
    ret              \* what it returned

mgr_vars == <<conversations, lock, spawned, pc, op, arg,
              history, local, result, live>>
trunc_vars == <<rollout_in, items_in, call, ret>>
vars == <<conversations, lock, spawned, pc, op, arg,
          history, local, result, live, rollout_in, items_in, call, ret>>

(***************************************************************************)
(* Bounds                                                                  *)
(***************************************************************************)
\* longest input sequence given to the truncation helpers
MaxLen == 4
\* sessions the Spawner starts in one behaviour
MaxSessions == 2

(***************************************************************************)
(* Transcript entries                                                      *)
(***************************************************************************)
\* ResponseItem::Message { role, content } and two non-message variants.
UserMsg      == [type |-> "Message", role |-> "user", text |-> "u"]
PrefixMsg    == [type |-> "Message", role |-> "user", text |-> "<environment_context>"]
AssistantMsg == [type |-> "Message", role |-> "assistant", text |-> "a"]
ReasoningItem    == [type |-> "Reasoning", role |-> "", text |-> "r"]
FunctionCallItem == [type |-> "FunctionCall", role |-> "", text |-> "tool"]
NoResponseItem   == [type |-> "None", role |-> "", text |-> ""]

ResponseItems == {UserMsg, PrefixMsg, AssistantMsg, ReasoningItem, FunctionCallItem}

\* RolloutItem::ResponseItem(item) wraps a transcript entry; the other
\* variants (session meta, ...) carry none.
WrapResponseItem(r) == [variant |-> "ResponseItem", item |-> r]
SessionMetaItem == [variant |-> "SessionMeta", item |-> NoResponseItem]

RolloutItems == {WrapResponseItem(r) : r \in ResponseItems} \cup {SessionMetaItem}

\* event_mapping::parse_turn_item: the external turn classifier.  A user
\* message is a UserMessage turn unless it is session-prefix context.
parse_turn_item(item) ==
    IF item.type = "Message"
    THEN IF item.role = "user"
         THEN IF item.text = "<environment_context>" THEN "None" ELSE "UserMessage"
         ELSE IF item.role = "assistant" THEN "AgentMessage" ELSE "None"
    ELSE IF item.type = "Reasoning" THEN "Reasoning" ELSE "None"

\* all sequences over S of length at most n
RECURSIVE SeqsUpTo(_, _)
SeqsUpTo(S, n) ==
    IF n = 0 THEN {<<>>}
    ELSE LET shorter == SeqsUpTo(S, n - 1)
         IN  shorter \cup {Append(s, x) : s \in {q \in shorter : Len(q) = n - 1}, x \in S}

\* items[..cut_idx].to_vec(): the first cut_idx entries (indices 0 .. cut_idx-1)
SliceTo(items, cut_idx) == SubSeq(items, 1, cut_idx)

(***************************************************************************)
(* history_truncation.rs                                                   *)
(***************************************************************************)
\* The for loop of user_message_positions_in_rollout from index idx on;
\* indices are 0-based as in the source, items[idx] is items[idx + 1] here.
RECURSIVE ScanRollout(_, _, _)
ScanRollout(items, idx, user_positions) ==
    IF idx >= Len(items) THEN user_positions
    ELSE LET item == items[idx + 1]
         IN  IF /\ item.variant = "ResponseItem"
                /\ item.item.type = "Message"
                /\ parse_turn_item(item.item) = "UserMessage"
             THEN ScanRollout(items, idx + 1, Append(user_positions, idx))
             ELSE ScanRollout(items, idx + 1, user_positions)

user_message_positions_in_rollout(items) == ScanRollout(items, 0, <<>>)

\* mutant: the cut keeps the nth user message itself
truncate_keeps_boundary(items, n_from_start) ==
    LET user_positions == user_message_positions_in_rollout(items)
    IN  IF Len(user_positions) <= n_from_start
        THEN <<>>
        ELSE SliceTo(items, user_positions[n_from_start + 1] + 1)

\* mutant: an out-of-range n is clamped to the last user message
truncate_clamps_out_of_range(items, n_from_start) ==
    LET user_positions == user_message_positions_in_rollout(items)
    IN  IF Len(user_positions) = 0 THEN <<>>
        ELSE IF Len(user_positions) <= n_from_start
        THEN SliceTo(items, user_positions[Len(user_positions)])
        ELSE SliceTo(items, user_positions[n_from_start + 1])

\* mutant: n_from_start is taken as 1-based
truncate_counts_from_one(items, n_from_start) ==
    LET user_positions == user_message_positions_in_rollout(items)
    IN  IF n_from_start = 0 \/ Len(user_positions) < n_from_start
        THEN <<>>
        ELSE SliceTo(items, user_positions[n_from_start])

truncate_rollout_before_nth_user_message_from_start(items, n_from_start) ==
    LET user_positions == user_message_positions_in_rollout(items)
    IN  IF Len(user_positions) <= n_from_start
        THEN <<>>
        ELSE LET cut_idx == user_positions[n_from_start + 1]
             IN  SliceTo(items, cut_idx)

RECURSIVE ScanResponseItems(_, _, _)
ScanResponseItems(items, idx, user_positions) ==
    IF idx >= Len(items) THEN user_positions
    ELSE LET item == items[idx + 1]
         IN  IF /\ item.type = "Message"
                /\ parse_turn_item(item) = "UserMessage"
             THEN ScanResponseItems(items, idx + 1, Append(user_positions, idx))
             ELSE ScanResponseItems(items, idx + 1, user_positions)

\* mutant: the index pushed is the one after the user message
user_message_positions_one_past(items) ==
    LET user_positions == ScanResponseItems(items, 0, <<>>)
    IN  [i \in 1 .. Len(user_positions) |-> user_positions[i] + 1]

user_message_positions_in_response_items(items) == ScanResponseItems(items, 0, <<>>)

\* usize::MAX, taken at its 32-bit value: no smaller target builds the crate,
\* and every num_turns the model draws is far below it
UsizeMax == 2147483647

\* usize::try_from(num_turns).unwrap_or(usize::MAX)
UsizeFromU32(num_turns) == IF num_turns <= UsizeMax THEN num_turns ELSE UsizeMax

\* mutant: dropping every user turn drops the session prefix too
drop_loses_session_prefix(items, num_turns) ==
    IF num_turns = 0 THEN items
    ELSE LET user_positions == user_message_positions_in_response_items(items)
         IN  IF Len(user_positions) = 0 THEN items
             ELSE LET n_from_end == UsizeFromU32(num_turns)
                  IN  IF n_from_end >= Len(user_positions) THEN <<>>
                      ELSE SliceTo(items,
                               user_positions[Len(user_positions) - n_from_end + 1])

\* mutant: the cut index is taken one user message too early
drop_one_turn_too_many(items, num_turns) ==
    IF num_turns = 0 THEN items
    ELSE LET user_positions == user_message_positions_in_response_items(items)
         IN  IF Len(user_positions) = 0 THEN items
             ELSE LET n_from_end == UsizeFromU32(num_turns)
                  IN  IF n_from_end >= Len(user_positions)
                      THEN SliceTo(items, user_positions[1])
                      ELSE SliceTo(items,
                               user_positions[Len(user_positions) - n_from_end])

\* mutant: without the num_turns == 0 return, zero turns are taken for one
drop_zero_drops_last_turn(items, num_turns) ==
    LET user_positions == user_message_positions_in_response_items(items)
    IN  IF Len(user_positions) = 0 THEN items
        ELSE LET n_from_end == IF num_turns = 0 THEN 1 ELSE UsizeFromU32(num_turns)
             IN  IF n_from_end >= Len(user_positions)
                 THEN SliceTo(items, user_positions[1])
                 ELSE SliceTo(items,
                          user_positions[Len(user_positions) - n_from_end + 1])

\* mutant: a transcript without user turns is cut at index 0
drop_without_turns_clears(items, num_turns) ==
    IF num_turns = 0 THEN items
    ELSE LET user_positions == user_message_positions_in_response_items(items)
         IN  IF Len(user_positions) = 0 THEN <<>>
             ELSE LET n_from_end == UsizeFromU32(num_turns)
                  IN  IF n_from_end >= Len(user_positions)
                      THEN SliceTo(items, user_positions[1])
                      ELSE SliceTo(items,
                               user_positions[Len(user_positions) - n_from_end + 1])

\* mutant: a cut inside the transcript keeps the user message it is made at
drop_keeps_cut_message(items, num_turns) ==
    IF num_turns = 0 THEN items
    ELSE LET user_positions == user_message_positions_in_response_items(items)
         IN  IF Len(user_positions) = 0 THEN items
             ELSE LET n_from_end == UsizeFromU32(num_turns)
                  IN  IF n_from_end >= Len(user_positions)
                      THEN SliceTo(items, user_positions[1])
                      ELSE SliceTo(items,
                               user_positions[Len(user_positions) - n_from_end + 1] + 1)

drop_last_n_user_turns_from_response_items(items, num_turns) ==
    IF num_turns = 0 THEN items
    ELSE LET user_positions == user_message_positions_in_response_items(items)
         IN  IF Len(user_positions) = 0 THEN items
             ELSE LET first_user_idx == user_positions[1]
                      n_from_end == UsizeFromU32(num_turns)
                      cut_idx == IF n_from_end >= Len(user_positions)
                                 THEN first_user_idx
                                 ELSE user_positions[Len(user_positions) - n_from_end + 1]
                  IN  SliceTo(items, cut_idx)

(***************************************************************************)
(* conversation_manager.rs: values                                         *)
(***************************************************************************)
Tasks    == {"t1", "t2"}          \* concurrent callers of the manager
ConvIds  == 1 .. MaxSessions      \* ConversationId values the Spawner hands out
NoId     == 0
Paths    == {"p1", "p2"}              \* rollout files a caller can name
EventPaths == {"r1", "r2"}        \* rollout_path values a SessionConfigured carries

\* crate::codex::INITIAL_SUBMIT_ID
INITIAL_SUBMIT_ID == "initial_submit"
EventIds == {INITIAL_SUBMIT_ID, "sub-1"}

\* protocol::Event { id, msg }; only SessionConfigured carries a rollout_path
NoEvent == [id |-> "none", msg |-> "none", rollout_path |-> "none"]
Events ==
    [id : {INITIAL_SUBMIT_ID}, msg : {"SessionConfigured"}, rollout_path : EventPaths]
    \cup {[id |-> "sub-1", msg |-> "SessionConfigured", rollout_path |-> "r1"]}
    \cup [id : EventIds, msg : {"TaskStarted"}, rollout_path : {"none"}]

\* Arc<CodexConversation>: one allocation per creation, told apart by the
\* session (codex) it wraps
NoHandle == [session |-> 0, rollout_path |-> "none"]
\* CodexConversation::new(codex, rollout_path)
NewCodexConversation(codex, rollout_path) ==
    [session |-> codex, rollout_path |-> rollout_path]

\* InitialHistory
HistoryNew == [kind |-> "New", items |-> <<>>]
HistoryForked(items) == [kind |-> "Forked", items |-> items]
HistoryResumed(items) == [kind |-> "Resumed", items |-> items]
NoHistory == [kind |-> "none", items |-> <<>>]

\* what the rollout loader can return in the manager specification: an empty
\* log, a log that opens with a user message, one with session-prefix
\* entries before the first user message, and one with two user turns
RolloutFixtures == {
    <<>>,
    <<WrapResponseItem(UserMsg), WrapResponseItem(AssistantMsg)>>,
    <<SessionMetaItem, WrapResponseItem(UserMsg), WrapResponseItem(AssistantMsg)>>,
    <<SessionMetaItem, WrapResponseItem(UserMsg), WrapResponseItem(AssistantMsg),
      WrapResponseItem(UserMsg)>> }
\* cut points a caller of fork_conversation passes (2 is out of range for
\* every fixture)
NthRange == {0, 1, 2}
\* histories a caller of resume_conversation_with_history passes
CallerHistories == {HistoryNew, HistoryForked(<<WrapResponseItem(UserMsg)>>)}

CreateOps == {"new", "resume_rollout", "resume_history", "fork"}

NoArg == [id |-> NoId, path |-> "none", n |-> 0]
NoLocal == [loaded |-> NoHistory, codex |-> 0, conversation_id |-> NoId, event |-> NoEvent]
\* what an operation returned: Ok / Err of a CodexResult, Some / None of
\* remove_conversation's Option, or Dropped when the caller abandoned it
NoResult == [kind |-> "none", err |-> "none", id |-> NoId, handle |-> NoHandle,
             session_configured |-> NoEvent]
\* Ok(NewConversation { conversation_id, conversation, session_configured })
OkNewConversation(id, h, ev) == [NoResult EXCEPT !.kind = "Ok", !.id = id, !.handle = h,
                                                !.session_configured = ev]
\* Ok(Arc<CodexConversation>) of get_conversation
OkResult(id, h) == [NoResult EXCEPT !.kind = "Ok", !.id = id, !.handle = h]
ErrResult(e, id) == [NoResult EXCEPT !.kind = "Err", !.err = e, !.id = id]
SomeResult(id, h) == [NoResult EXCEPT !.kind = "Some", !.id = id, !.handle = h]
NoneResult(id) == [NoResult EXCEPT !.kind = "None", !.id = id]
Dropped == [NoResult EXCEPT !.kind = "Dropped"]


(***************************************************************************)
(* The registry: HashMap<ConversationId, Arc<CodexConversation>>           *)
(***************************************************************************)
\* mutant: the map is rebuilt around the new entry
MapInsert_clears_others(m, id, h) == [c \in DOMAIN m |-> IF c = id THEN h ELSE NoHandle]
\* mutant: entry(id).or_insert(h), a present key keeps its handle
MapInsert_keeps_existing(m, id, h) == IF m[id] = NoHandle THEN [m EXCEPT ![id] = h] ELSE m

\* HashMap::insert(conversation_id, conversation)
MapInsert(m, id, h) == [m EXCEPT ![id] = h]
\* mutant: the entry is looked up but left in the map
MapRemove_keeps_entry(m, id) == m

\* HashMap::remove(conversation_id)
MapRemove(m, id) == [m EXCEPT ![id] = NoHandle]
\* HashMap::get(&conversation_id).cloned()
MapGet(m, id) == m[id]

\* RolloutRecorder::get_rollout_history(path) when it succeeds: the history
\* recorded in the file, whose entries are items
get_rollout_history(items) == HistoryResumed(items)
\* InitialHistory::get_rollout_items
get_rollout_items(h) == h.items

\* mutant: the truncation is wrapped as Forked without the is_empty test
ForkHistory_always_forked(loaded, nth_user_message) ==
    HistoryForked(truncate_rollout_before_nth_user_message_from_start(
                      get_rollout_items(loaded), nth_user_message))

\* fork_conversation, lines 235-244: the InitialHistory it hands to the Spawner
ForkHistory(loaded, nth_user_message) ==
    LET rollout_items == get_rollout_items(loaded)
        truncated == truncate_rollout_before_nth_user_message_from_start(
                         rollout_items, nth_user_message)
    IN  IF truncated = <<>> THEN HistoryNew ELSE HistoryForked(truncated)

\* mutant: the match arm has no `if id == INITIAL_SUBMIT_ID` guard
IsSessionConfigured_any_id(event) == event.msg = "SessionConfigured"

\* finalize_spawn, lines 143-151: the match on the first event
IsSessionConfiguredFirst(event) ==
    event.msg = "SessionConfigured" /\ event.id = INITIAL_SUBMIT_ID

(***************************************************************************)
(* Initial state                                                           *)
(***************************************************************************)
TruncIdle ==
    /\ rollout_in = <<>>
    /\ items_in = <<>>
    /\ call = [fn |-> "none", n |-> 0]
    /\ ret = <<>>

\* ConversationManager::new: an empty map; no caller has started anything
ManagerIdle ==
    /\ conversations = [c \in ConvIds |-> NoHandle]
    /\ lock = [writer |-> "none", readers |-> {}]
    /\ spawned = 0
    /\ pc = [t \in Tasks |-> "idle"]
    /\ op = [t \in Tasks |-> "none"]
    /\ arg = [t \in Tasks |-> NoArg]
    /\ history = [t \in Tasks |-> NoHistory]
    /\ local = [t \in Tasks |-> NoLocal]
    /\ result = [t \in Tasks |-> NoResult]
    /\ live = [c \in ConvIds |-> NoHandle]

Init == ManagerIdle /\ TruncIdle

(***************************************************************************)
(* Calls: a caller starts an operation                                     *)
(***************************************************************************)
Start(t, o, a, h, p) ==
    /\ pc[t] = "idle"
    /\ pc' = [pc EXCEPT ![t] = p]
    /\ op' = [op EXCEPT ![t] = o]
    /\ arg' = [arg EXCEPT ![t] = a]
    /\ history' = [history EXCEPT ![t] = h]
    /\ local' = [local EXCEPT ![t] = NoLocal]
    /\ result' = [result EXCEPT ![t] = NoResult]
    /\ UNCHANGED <<conversations, lock, spawned, live>>
    /\ UNCHANGED trunc_vars

\* new_conversation -> spawn_conversation: Codex::spawn(.., InitialHistory::New, ..)
CallNew(t) == Start(t, "new", NoArg, HistoryNew, "spawn")

\* resume_conversation_from_rollout: first awaits the rollout loader
CallResumeFromRollout(t, path) ==
    Start(t, "resume_rollout", [NoArg EXCEPT !.path = path], NoHistory, "load")

\* resume_conversation_with_history: Codex::spawn(.., initial_history, ..)
CallResumeWithHistory(t, h) == Start(t, "resume_history", NoArg, h, "spawn")

\* fork_conversation: first awaits the rollout loader
CallFork(t, n, path) ==
    Start(t, "fork", [NoArg EXCEPT !.path = path, !.n = n], NoHistory, "load")

\* get_conversation: awaits self.conversations.read()
CallGet(t, id) == Start(t, "get", [NoArg EXCEPT !.id = id], NoHistory, "read_lock")

\* remove_conversation: awaits self.conversations.write()
CallRemove(t, id) == Start(t, "remove", [NoArg EXCEPT !.id = id], NoHistory, "write_lock")

(***************************************************************************)
(* Steps of the creation paths                                             *)
(***************************************************************************)
\* The operation of caller t returns r (or its future is dropped).  Its
\* arguments and locals go with the future, except what `kept` records of
\* the finished operation until the caller's next call.
Return(t, r, kept) ==
    /\ pc' = [pc EXCEPT ![t] = "idle"]
    /\ result' = [result EXCEPT ![t] = r]
    /\ arg' = [arg EXCEPT ![t] = NoArg]
    /\ history' = [history EXCEPT ![t] = NoHistory]
    /\ local' = [local EXCEPT ![t] = kept]

\* mutant: the cut point is kept in a field of the manager that concurrent
\* forks share, so a fork may truncate at the other fork's n
LoadOk_shares_cut_point(t, items) ==
    /\ pc[t] = "load"
    /\ LET loaded == get_rollout_history(items)
           others == {u \in Tasks \ {t} : op[u] = "fork" /\ pc[u] \in {"load", "spawn"}}
           n == IF others = {} THEN arg[t].n ELSE arg[CHOOSE u \in others : TRUE].n
       IN  /\ local' = [local EXCEPT ![t].loaded = loaded]
           /\ history' = [history EXCEPT ![t] =
                  IF op[t] = "fork" THEN ForkHistory(loaded, n) ELSE loaded]
    /\ arg' = [arg EXCEPT ![t].path = "none"]
    /\ pc' = [pc EXCEPT ![t] = "spawn"]
    /\ UNCHANGED <<conversations, lock, spawned, op, result, live>>
    /\ UNCHANGED trunc_vars

\* RolloutRecorder::get_rollout_history(&path).await succeeds.  resume hands
\* the loaded history on; fork truncates it first (lines 235-244).  The
\* caller is then suspended in Codex::spawn(..).await.
LoadOk(t, items) ==
    /\ pc[t] = "load"
    /\ LET loaded == get_rollout_history(items)
       IN  /\ local' = [local EXCEPT ![t].loaded = loaded]
           /\ history' = [history EXCEPT ![t] =
                  IF op[t] = "fork" THEN ForkHistory(loaded, arg[t].n) ELSE loaded]
    /\ arg' = [arg EXCEPT ![t].path = "none"]
    /\ pc' = [pc EXCEPT ![t] = "spawn"]
    /\ UNCHANGED <<conversations, lock, spawned, op, result, live>>
    /\ UNCHANGED trunc_vars

\* get_rollout_history(..).await? fails: the error is returned
LoadErr(t) ==
    /\ pc[t] = "load"
    /\ Return(t, ErrResult("Io", NoId), NoLocal)
    /\ UNCHANGED <<conversations, lock, spawned, op, live>>
    /\ UNCHANGED trunc_vars

\* mutant: the conversation is registered as soon as it is spawned, before
\* its first event is read
SpawnOk_registers_early(t, id) ==
    /\ pc[t] = "spawn"
    /\ spawned < MaxSessions
    /\ spawned' = spawned + 1
    /\ conversations' = [conversations EXCEPT
           ![id] = NewCodexConversation(spawned + 1, "none")]
    /\ local' = [local EXCEPT ![t] =
           [NoLocal EXCEPT !.codex = spawned + 1, !.conversation_id = id]]
    /\ arg' = [arg EXCEPT ![t] = NoArg]
    /\ history' = [history EXCEPT ![t] = NoHistory]
    /\ pc' = [pc EXCEPT ![t] = "next_event"]
    /\ UNCHANGED <<lock, op, result, live>>
    /\ UNCHANGED trunc_vars

\* mutant: the write guard is taken before the first event is awaited and
\* held while it is
SpawnOk_locks_registry(t, id) ==
    /\ pc[t] = "spawn"
    /\ spawned < MaxSessions
    /\ lock.writer = "none" /\ lock.readers = {}
    /\ lock' = [lock EXCEPT !.writer = t]
    /\ spawned' = spawned + 1
    /\ local' = [local EXCEPT ![t] =
           [NoLocal EXCEPT !.codex = spawned + 1, !.conversation_id = id]]
    /\ arg' = [arg EXCEPT ![t] = NoArg]
    /\ history' = [history EXCEPT ![t] = NoHistory]
    /\ pc' = [pc EXCEPT ![t] = "next_event"]
    /\ UNCHANGED <<conversations, op, result, live>>
    /\ UNCHANGED trunc_vars

\* Codex::spawn(..).await returns CodexSpawnOk { codex, conversation_id };
\* the history has moved into the session, and finalize_spawn awaits
\* codex.next_event()
SpawnOk(t, id) ==
    /\ pc[t] = "spawn"
    /\ spawned < MaxSessions
    /\ spawned' = spawned + 1
    /\ local' = [local EXCEPT ![t] =
           [NoLocal EXCEPT !.codex = spawned + 1, !.conversation_id = id]]
    /\ arg' = [arg EXCEPT ![t] = NoArg]
    /\ history' = [history EXCEPT ![t] = NoHistory]
    /\ pc' = [pc EXCEPT ![t] = "next_event"]
    /\ UNCHANGED <<conversations, lock, op, result, live>>
    /\ UNCHANGED trunc_vars

\* Codex::spawn(..).await? fails: the error is returned
SpawnErr(t) ==
    /\ pc[t] = "spawn"
    /\ Return(t, ErrResult("Spawn", NoId), NoLocal)
    /\ UNCHANGED <<conversations, lock, spawned, op, live>>
    /\ UNCHANGED trunc_vars

\* finalize_spawn, lines 142-160: codex.next_event().await yields event.
\* A first event that passes the match leaves the caller awaiting the write
\* lock with the conversation built; any other returns the protocol error.
NextEvent(t, event) ==
    /\ pc[t] = "next_event"
    /\ IF IsSessionConfiguredFirst(event)
       THEN /\ pc' = [pc EXCEPT ![t] = "write_lock"]
            /\ local' = [local EXCEPT ![t].event = event]
            /\ UNCHANGED <<result, arg, history>>
       ELSE Return(t, ErrResult("SessionConfiguredNotFirstEvent", NoId),
                   [NoLocal EXCEPT !.codex = local[t].codex, !.event = event])
    /\ UNCHANGED <<conversations, lock, spawned, op, live>>
    /\ UNCHANGED trunc_vars

\* mutant: the conversation was inserted before the first event was awaited,
\* and the entry stays when reading the event fails
NextEventErr_leaves_entry(t) ==
    /\ pc[t] = "next_event"
    /\ conversations' = [conversations EXCEPT
           ![local[t].conversation_id] = NewCodexConversation(local[t].codex, "none")]
    /\ Return(t, ErrResult("Stream", NoId), [NoLocal EXCEPT !.codex = local[t].codex])
    /\ UNCHANGED <<lock, spawned, op, live>>
    /\ UNCHANGED trunc_vars

\* codex.next_event().await? fails: the error is returned
NextEventErr(t) ==
    /\ pc[t] = "next_event"
    /\ Return(t, ErrResult("Stream", NoId), [NoLocal EXCEPT !.codex = local[t].codex])
    /\ UNCHANGED <<conversations, lock, spawned, op, live>>
    /\ UNCHANGED trunc_vars

(***************************************************************************)
(* The RwLock and the registry operations under it                         *)
(***************************************************************************)
\* self.conversations.write().await completes: exclusive access
AcquireWrite(t) ==
    /\ pc[t] = "write_lock"
    /\ lock.writer = "none" /\ lock.readers = {}
    /\ lock' = [lock EXCEPT !.writer = t]
    /\ pc' = [pc EXCEPT ![t] = "write_held"]
    /\ UNCHANGED <<conversations, spawned, op, arg, history, local, result, live>>
    /\ UNCHANGED trunc_vars

\* self.conversations.read().await completes: shared access
AcquireRead(t) ==
    /\ pc[t] = "read_lock"
    /\ lock.writer = "none"
    /\ lock' = [lock EXCEPT !.readers = @ \cup {t}]
    /\ pc' = [pc EXCEPT ![t] = "read_held"]
    /\ UNCHANGED <<conversations, spawned, op, arg, history, local, result, live>>
    /\ UNCHANGED trunc_vars

\* mutant: after the insert the function awaits the read lock to fetch the
\* handle it returns, so the insert and the return are apart
Insert_awaits_before_return(t) ==
    /\ pc[t] = "write_held" /\ op[t] \in CreateOps
    /\ LET conversation == NewCodexConversation(local[t].codex,
                                                local[t].event.rollout_path)
           conversation_id == local[t].conversation_id
       IN  /\ conversations' = MapInsert(conversations, conversation_id, conversation)
           /\ live' = [live EXCEPT ![conversation_id] = conversation]
           /\ arg' = [arg EXCEPT ![t].id = conversation_id]
    /\ pc' = [pc EXCEPT ![t] = "read_lock"]
    /\ lock' = [lock EXCEPT !.writer = "none"]
    /\ UNCHANGED <<spawned, op, history, local, result>>
    /\ UNCHANGED trunc_vars

\* finalize_spawn, lines 153-166: insert under the write guard, drop the
\* guard, return Ok(NewConversation { .. }); nothing is awaited in between
Insert(t) ==
    /\ pc[t] = "write_held" /\ op[t] \in CreateOps
    /\ LET session_configured == local[t].event
           conversation == NewCodexConversation(local[t].codex,
                                                session_configured.rollout_path)
           conversation_id == local[t].conversation_id
       IN  /\ conversations' = MapInsert(conversations, conversation_id, conversation)
           /\ live' = [live EXCEPT ![conversation_id] = conversation]
           /\ Return(t, OkNewConversation(conversation_id, conversation,
                                          session_configured), NoLocal)
    /\ lock' = [lock EXCEPT !.writer = "none"]
    /\ UNCHANGED <<spawned, op>>
    /\ UNCHANGED trunc_vars

\* remove_conversation, line 220: remove under the write guard
Remove(t) ==
    /\ pc[t] = "write_held" /\ op[t] = "remove"
    /\ LET found == MapGet(conversations, arg[t].id)
       IN  Return(t, IF found = NoHandle THEN NoneResult(arg[t].id)
                     ELSE SomeResult(arg[t].id, found), NoLocal)
    /\ conversations' = MapRemove(conversations, arg[t].id)
    /\ live' = [live EXCEPT ![arg[t].id] = NoHandle]
    /\ lock' = [lock EXCEPT !.writer = "none"]
    /\ UNCHANGED <<spawned, op>>
    /\ UNCHANGED trunc_vars

\* mutant: an absent id makes the lookup wait for the lock and try again
Lookup_retries_when_absent(t) ==
    /\ pc[t] = "read_held"
    /\ LET found == MapGet(conversations, arg[t].id)
       IN  IF found = NoHandle
           THEN /\ pc' = [pc EXCEPT ![t] = "read_lock"]
                /\ UNCHANGED <<result, arg, history, local>>
           ELSE Return(t, OkResult(arg[t].id, found), NoLocal)
    /\ lock' = [lock EXCEPT !.readers = @ \ {t}]
    /\ UNCHANGED <<conversations, spawned, op, live>>
    /\ UNCHANGED trunc_vars

\* get_conversation, lines 174-177: look up under the read guard
Lookup(t) ==
    /\ pc[t] = "read_held"
    /\ LET found == MapGet(conversations, arg[t].id)
       IN  Return(t, IF found = NoHandle
                     THEN ErrResult("ConversationNotFound", arg[t].id)
                     ELSE OkResult(arg[t].id, found), NoLocal)
    /\ lock' = [lock EXCEPT !.readers = @ \ {t}]
    /\ UNCHANGED <<conversations, spawned, op, live>>
    /\ UNCHANGED trunc_vars

\* The caller drops the future of its operation while it is suspended at an
\* .await; a session already spawned is left to the Spawner.
SuspensionPoints == {"load", "spawn", "next_event", "write_lock", "read_lock"}
Cancel(t) ==
    /\ pc[t] \in SuspensionPoints
    /\ Return(t, Dropped, [NoLocal EXCEPT !.codex = local[t].codex,
                                          !.event = local[t].event])
    /\ UNCHANGED <<conversations, lock, spawned, op, live>>
    /\ UNCHANGED trunc_vars

\* The conversation id Codex::spawn assigns.  The Spawner generates it; by
\* its contract every session gets an id no other session has, here the
\* next unused one.
FreshConversationId == spawned + 1

\* every step of caller t but the return of Codex::spawn
TaskStep(t) ==
    \/ CallNew(t)
    \/ \E path \in Paths : CallResumeFromRollout(t, path)
    \/ \E h \in CallerHistories : CallResumeWithHistory(t, h)
    \/ \E n \in NthRange, path \in Paths : CallFork(t, n, path)
    \/ \E id \in ConvIds : CallGet(t, id)
    \/ \E id \in ConvIds : CallRemove(t, id)
    \/ \E items \in RolloutFixtures : LoadOk(t, items)
    \/ LoadErr(t)
    \/ SpawnErr(t)
    \/ \E event \in Events : NextEvent(t, event)
    \/ NextEventErr(t)
    \/ AcquireWrite(t)
    \/ AcquireRead(t)
    \/ Insert(t)
    \/ Remove(t)
    \/ Lookup(t)
    \/ Cancel(t)

Next ==
    \E t \in Tasks :
        \/ TaskStep(t)
        \/ SpawnOk(t, FreshConversationId)

\* the manager with a Spawner that hands out unique conversation ids
Spec == Init /\ [][Next]_vars

\* every step of caller t but the return of Codex::spawn, for callers that
\* create through new_conversation only (all creation paths share
\* finalize_spawn)
NewGetRemoveStep(t) ==
    \/ CallNew(t)
    \/ \E id \in ConvIds : CallGet(t, id)
    \/ \E id \in ConvIds : CallRemove(t, id)
    \/ SpawnErr(t)
    \/ \E event \in Events : NextEvent(t, event)
    \/ NextEventErr(t)
    \/ AcquireWrite(t)
    \/ AcquireRead(t)
    \/ Insert(t)
    \/ Remove(t)
    \/ Lookup(t)
    \/ Cancel(t)

NextAnyId ==
    \E t \in Tasks :
        \/ NewGetRemoveStep(t)
        \/ \E id \in ConvIds : SpawnOk(t, id)

\* the manager with a Spawner that may hand out an id it has handed out
\* before (the registry's insert contract allows for it)
SpecAnyId == Init /\ [][NextAnyId]_vars

(***************************************************************************)
(* Properties of the ConversationManager (checked under Spec)              *)
(***************************************************************************)
\* the map m holds an entry for session s
RegisteredIn(m, s) == \E X \in ConvIds : m[X].session = s
Registered(s) == RegisteredIn(conversations, s)
\* the step is one that caller t takes
StepOf(t) == pc'[t] # pc[t]
\* a first event that is not SessionConfigured, or carries another id
BadFirstEvent(ev) ==
    ev # NoEvent /\ (ev.msg # "SessionConfigured" \/ ev.id # INITIAL_SUBMIT_ID)

\* C1: live[X] is the handle H a successful creation returned with id X, from
\* that return on; only a remove_conversation(X) ends it, whatever is done to
\* other ids.  While it lasts every get_conversation(X) returns H, and once X
\* is removed every get_conversation(X) fails with ConversationNotFound(X).
C1_GetReturnsHandleUntilRemoved ==
    [][/\ \A t \in Tasks :
            (pc[t] = "read_held" /\ pc'[t] = "idle")
            => LET X == arg[t].id
               IN  IF live[X] # NoHandle
                   THEN result'[t] = OkResult(X, live[X])
                   ELSE result'[t] = ErrResult("ConversationNotFound", X)
       /\ \A X \in ConvIds :
            (live[X] # NoHandle /\ live'[X] # live[X])
            => \E t \in Tasks : /\ op[t] = "remove" /\ arg[t].id = X
                                 /\ pc[t] = "write_held" /\ pc'[t] = "idle"]_vars

\* a get_conversation(X) returned the handle a creation returned for X, while
\* the other id is registered too
C1_Witness ==
    \E t \in Tasks, u \in Tasks :
        /\ op[u] \in CreateOps /\ pc[u] = "idle" /\ result[u].kind = "Ok"
        /\ op[t] = "get" /\ pc[t] = "idle"
        /\ result[t] = OkResult(result[u].id, result[u].handle)
        /\ \E Y \in ConvIds : Y # result[u].id /\ conversations[Y] # NoHandle

\* C2: on every creation path, a first event that is not SessionConfigured
\* or whose id is not INITIAL_SUBMIT_ID ends the operation with
\* SessionConfiguredNotFirstEvent in the step that reads it, and that step
\* leaves the registry as it was, with no entry for the session.
C2_BadFirstEventIsProtocolError ==
    [][\A t \in Tasks :
          (op[t] \in CreateOps /\ pc[t] = "next_event" /\ BadFirstEvent(local'[t].event))
          => /\ pc'[t] = "idle"
             /\ result'[t] = ErrResult("SessionConfiguredNotFirstEvent", NoId)
             /\ conversations' = conversations
             /\ ~Registered(local[t].codex)]_vars

\* a fork whose session sent SessionConfigured under another submission id,
\* while the registry holds an entry
C2_Witness ==
    \E t \in Tasks :
        /\ op[t] = "fork" /\ pc[t] = "idle"
        /\ result[t].err = "SessionConfiguredNotFirstEvent"
        /\ local[t].event.msg = "SessionConfigured"
        /\ local[t].event.id # INITIAL_SUBMIT_ID
        /\ \E X \in ConvIds : conversations[X] # NoHandle

\* C3: no entry of the registry, and no handle a get_conversation returned,
\* belongs to a session whose creation has not returned Ok: one that still
\* awaits its first event or the write lock, or whose creation failed or was
\* dropped.
C3_OnlyValidatedSessionsVisible ==
    \A t \in Tasks :
        local[t].codex # 0
        => /\ ~Registered(local[t].codex)
           /\ \A u \in Tasks :
                  (op[u] = "get" /\ result[u].kind = "Ok")
                  => result[u].handle.session # local[t].codex

\* a get_conversation holds the read lock for the id of a creation that
\* still awaits its first event
C3_Witness ==
    \E t \in Tasks, u \in Tasks :
        /\ pc[t] = "next_event"
        /\ pc[u] = "read_held"
        /\ arg[u].id = local[t].conversation_id
        /\ \E X \in ConvIds : conversations[X] # NoHandle

\* C4: no step of a creation before its insert changes the registry; when
\* the loader, the Spawner or the read of the first event fails, that step
\* ends the operation with the stage's error, starts no further session and
\* leaves the registry as it was.
C4_FailedCreationLeavesRegistry ==
    [][\A t \in Tasks :
          (op[t] \in CreateOps /\ pc[t] \in {"load", "spawn", "next_event"} /\ StepOf(t))
          => /\ conversations' = conversations
             /\ result'[t].kind = "Err"
                => /\ pc'[t] = "idle"
                   /\ spawned' = spawned
                   /\ pc[t] = "load" => result'[t].err = "Io"
                   /\ pc[t] = "spawn" => result'[t].err = "Spawn"
                   /\ pc[t] = "next_event" =>
                          result'[t].err \in {"Stream", "SessionConfiguredNotFirstEvent"}]_vars

\* a resume from a rollout whose first event could not be read, while the
\* registry holds an entry
C4_Witness ==
    \E t \in Tasks :
        /\ op[t] = "resume_rollout" /\ pc[t] = "idle"
        /\ result[t].err = "Stream"
        /\ \E X \in ConvIds : conversations[X] # NoHandle

\* C5: a creation is dropped only while suspended at an await, the drop
\* leaves the registry as it was and with no entry for the dropped
\* operation's session; and the step that inserts is the step that returns
\* Ok, so no drop can fall between the two.
C5_DroppedCreationLeavesNoEntry ==
    [][\A t \in Tasks :
          (op[t] \in CreateOps /\ StepOf(t))
          => /\ result'[t].kind = "Dropped"
                => /\ conversations' = conversations
                   /\ local'[t].codex # 0 => ~RegisteredIn(conversations', local'[t].codex)
             /\ conversations' # conversations
                => pc'[t] = "idle" /\ result'[t].kind = "Ok"]_vars

\* a creation dropped while it waited for the write lock another caller held
C5_Witness ==
    \E t \in Tasks :
        /\ op[t] \in CreateOps /\ pc[t] = "idle"
        /\ result[t].kind = "Dropped"
        /\ local[t].event.msg = "SessionConfigured"
        /\ lock.writer # "none"

\* C6: the history a fork hands to the Spawner is Forked(t) when the
\* from-start truncation t of the loaded items at the caller's n is
\* non-empty and New when it is empty; it is never a Forked of nothing.
C6_ForkSeedsForkedOrNew ==
    \A t \in Tasks :
        (op[t] = "fork" /\ pc[t] = "spawn")
        => LET truncated == truncate_rollout_before_nth_user_message_from_start(
                                local[t].loaded.items, arg[t].n)
           IN  /\ truncated # <<>> => history[t] = HistoryForked(truncated)
               /\ truncated = <<>> => history[t] = HistoryNew
               /\ history[t] # HistoryForked(<<>>)

\* a fork of a non-empty rollout at an out-of-range n is about to spawn
\* with New
C6_Witness ==
    \E t \in Tasks :
        /\ op[t] = "fork" /\ pc[t] = "spawn"
        /\ arg[t].n = 2
        /\ local[t].loaded.items # <<>>
        /\ history[t] = HistoryNew

\* the ids that are keys of the map m
Keys(m) == {X \in ConvIds : m[X] # NoHandle}
\* the step is the insert-and-return of caller t's creation
InsertStepOf(t) == op[t] \in CreateOps /\ pc[t] = "write_held" /\ StepOf(t)
\* the step is the remove-and-return of caller t's remove_conversation
RemoveStepOf(t) == op[t] = "remove" /\ pc[t] = "write_held" /\ StepOf(t)
\* the step is the lookup-and-return of caller t's get_conversation
LookupStepOf(t) == pc[t] = "read_held" /\ StepOf(t)

\* C13: of two fork_conversation calls of different callers, each hands the
\* Spawner the truncation of what it loaded at its own cut point, whatever
\* the other does meanwhile; their sessions get different conversation ids;
\* and the insert of one registers its id with its own handle and leaves
\* the other's entry in place.
C13_ConcurrentForksAreIndependent ==
    [][\A t \in Tasks, u \in Tasks :
          (t # u /\ op[t] = "fork" /\ op[u] = "fork")
          => /\ pc[t] = "spawn"
                => LET truncated == truncate_rollout_before_nth_user_message_from_start(
                                        local[t].loaded.items, arg[t].n)
                   IN  history[t] = IF truncated = <<>> THEN HistoryNew
                                    ELSE HistoryForked(truncated)
             /\ (local[t].conversation_id # NoId /\ local[u].conversation_id # NoId)
                => local[t].conversation_id # local[u].conversation_id
             /\ (local[t].conversation_id # NoId /\ result[u].kind = "Ok")
                => local[t].conversation_id # result[u].id
             /\ InsertStepOf(t)
                => /\ result'[t].kind = "Ok"
                   /\ result'[t].handle.session = local[t].codex
                   /\ conversations'[result'[t].id] = result'[t].handle
                   /\ (result[u].kind = "Ok" /\ conversations[result[u].id] = result[u].handle)
                      => /\ conversations'[result[u].id] = result[u].handle
                         /\ result[u].handle # result'[t].handle]_vars

\* two forks that loaded the same rollout are both about to spawn, with
\* different cut points and different seeds
C13_Witness ==
    \E t \in Tasks, u \in Tasks :
        /\ t # u /\ op[t] = "fork" /\ op[u] = "fork"
        /\ pc[t] = "spawn" /\ pc[u] = "spawn"
        /\ local[t].loaded = local[u].loaded
        /\ arg[t].n # arg[u].n
        /\ history[t].kind = "Forked" /\ history[u].kind = "Forked"
        /\ history[t] # history[u]

\* C14: a get_conversation of an id that is not in the registry returns
\* ConversationNotFound(id), a remove_conversation of such an id returns
\* None; either does so in the one step it takes under the lock (no second
\* attempt), releases the lock and leaves the registry as it was.
C14_AbsentIdIsNotFound ==
    [][\A t \in Tasks :
          /\ (LookupStepOf(t) /\ conversations[arg[t].id] = NoHandle)
             => /\ pc'[t] = "idle"
                /\ result'[t] = ErrResult("ConversationNotFound", arg[t].id)
                /\ t \notin lock'.readers
                /\ conversations' = conversations
          /\ (RemoveStepOf(t) /\ conversations[arg[t].id] = NoHandle)
             => /\ pc'[t] = "idle"
                /\ result'[t] = NoneResult(arg[t].id)
                /\ lock'.writer = "none"
                /\ conversations' = conversations]_vars

\* one caller's get and the other's remove of an unregistered id both came
\* back not-found, while another id is registered
C14_Witness ==
    \E t \in Tasks, u \in Tasks :
        /\ op[t] = "get" /\ pc[t] = "idle"
        /\ result[t].err = "ConversationNotFound"
        /\ op[u] = "remove" /\ pc[u] = "idle"
        /\ result[u].kind = "None"
        /\ \E Y \in ConvIds : Y # result[t].id /\ conversations[Y] # NoHandle

\* C15: a caller that is loading a rollout, spawning or awaiting the first
\* event holds neither the read nor the write lock; whoever holds the lock
\* is in the registry operation itself.
C15_NoLockAcrossSuspension ==
    \A t \in Tasks :
        /\ pc[t] \in {"load", "spawn", "next_event"}
           => (lock.writer # t /\ t \notin lock.readers)
        /\ lock.writer = t => pc[t] = "write_held"
        /\ t \in lock.readers => pc[t] = "read_held"

\* one creation inserts under the write lock while another still awaits its
\* first event
C15_Witness ==
    \E t \in Tasks, u \in Tasks :
        /\ op[t] \in CreateOps /\ pc[t] = "next_event"
        /\ op[u] \in CreateOps /\ pc[u] = "write_held"
        /\ lock.writer = u

\* C16: the insert that ends a successful creation changes the registry at
\* one key only: the id the Spawner assigned now maps to the handle that is
\* returned, which wraps the spawned session and carries the rollout path
\* of the returned SessionConfigured event.  No step of get_conversation
\* changes the registry, and remove_conversation(X) changes no entry but X's.
C16_FrameOfRegistryOperations ==
    [][\A t \in Tasks :
          /\ InsertStepOf(t)
             => LET X == local[t].conversation_id
                IN  /\ result'[t].kind = "Ok" /\ result'[t].id = X
                    /\ conversations'[X] = result'[t].handle
                    /\ result'[t].handle.session = local[t].codex
                    /\ result'[t].session_configured = local[t].event
                    /\ result'[t].handle.rollout_path =
                           result'[t].session_configured.rollout_path
                    /\ \A Y \in ConvIds \ {X} : conversations'[Y] = conversations[Y]
          /\ (pc[t] \in {"read_lock", "read_held"} /\ StepOf(t))
             => conversations' = conversations
          /\ RemoveStepOf(t)
             => \A Y \in ConvIds \ {arg[t].id} : conversations'[Y] = conversations[Y]]_vars

\* a creation returned the handle now registered under its id, with the
\* event's rollout path, next to an entry made before with another path
C16_Witness ==
    \E t \in Tasks :
        /\ op[t] \in CreateOps /\ pc[t] = "idle" /\ result[t].kind = "Ok"
        /\ conversations[result[t].id] = result[t].handle
        /\ result[t].handle.rollout_path = "r2"
        /\ result[t].handle.session = 2
        /\ \E Y \in ConvIds : /\ Y # result[t].id
                               /\ conversations[Y] # NoHandle
                               /\ conversations[Y].rollout_path = "r1"

\* C17 (under SpecAnyId): when the id the Spawner returned is already a key,
\* the insert replaces the stored handle by the new one: the number of
\* entries stays, the earlier handle is under no key any more, every
\* get_conversation of an id returns the handle of the latest creation, and
\* one remove_conversation(id) leaves no entry for id.
C17_DuplicateIdOverwrites ==
    [][\A t \in Tasks :
          /\ (InsertStepOf(t) /\ conversations[local[t].conversation_id] # NoHandle)
             => LET X == local[t].conversation_id
                    old == conversations[X]
                IN  /\ result'[t].handle.session = local[t].codex
                    /\ conversations'[X] = result'[t].handle
                    /\ conversations'[X] # old
                    /\ Cardinality(Keys(conversations')) = Cardinality(Keys(conversations))
                    /\ ~RegisteredIn(conversations', old.session)
          /\ (LookupStepOf(t) /\ live[arg[t].id] # NoHandle)
             => result'[t] = OkResult(arg[t].id, live[arg[t].id])
          /\ RemoveStepOf(t)
             => /\ conversations'[arg[t].id] = NoHandle
                /\ Keys(conversations') = Keys(conversations) \ {arg[t].id}]_vars

\* two creations returned the same id; the registry holds the handle of the
\* later one and the earlier one's is under no key
C17_Witness ==
    \E t \in Tasks, u \in Tasks :
        /\ t # u
        /\ op[t] \in CreateOps /\ pc[t] = "idle" /\ result[t].kind = "Ok"
        /\ op[u] \in CreateOps /\ pc[u] = "idle" /\ result[u].kind = "Ok"
        /\ result[t].id = result[u].id
        /\ result[t].handle.session < result[u].handle.session
        /\ conversations[result[u].id] = result[u].handle
        /\ ~Registered(result[t].handle.session)

(***************************************************************************)
(* The truncation helpers applied to explicit inputs                       *)
(***************************************************************************)
\* a num_turns far beyond any transcript of the model (the source's test uses 99)
ManyTurns == 99
NthArgs == 0 .. (MaxLen + 1)
NumTurnsArgs == (0 .. (MaxLen + 1)) \cup {ManyTurns}

\* one input is drawn: a rollout for the from-start cut, or a transcript for
\* the from-end cut
InitTrunc ==
    /\ ManagerIdle
    /\ call = [fn |-> "none", n |-> 0]
    /\ ret = <<>>
    /\ \/ rollout_in \in SeqsUpTo(RolloutItems, MaxLen) /\ items_in = <<>>
       \/ rollout_in = <<>> /\ items_in \in SeqsUpTo(ResponseItems, MaxLen)

TruncateCall(n) ==
    /\ call' = [fn |-> "truncate", n |-> n]
    /\ ret' = truncate_rollout_before_nth_user_message_from_start(rollout_in, n)
    /\ UNCHANGED <<rollout_in, items_in>>
    /\ UNCHANGED mgr_vars

DropCall(num_turns) ==
    /\ call' = [fn |-> "drop", n |-> num_turns]
    /\ ret' = drop_last_n_user_turns_from_response_items(items_in, num_turns)
    /\ UNCHANGED <<rollout_in, items_in>>
    /\ UNCHANGED mgr_vars

\* user_message_positions_in_rollout applied to the rollout
PositionsInRolloutCall ==
    /\ call' = [fn |-> "positions_in_rollout", n |-> 0]
    /\ ret' = user_message_positions_in_rollout(rollout_in)
    /\ UNCHANGED <<rollout_in, items_in>>
    /\ UNCHANGED mgr_vars

\* user_message_positions_in_response_items applied to the transcript
PositionsInResponseItemsCall ==
    /\ call' = [fn |-> "positions_in_response_items", n |-> 0]
    /\ ret' = user_message_positions_in_response_items(items_in)
    /\ UNCHANGED <<rollout_in, items_in>>
    /\ UNCHANGED mgr_vars

\* a second rollback, applied to what the first rollback returned
DropAgainCall(num_turns) ==
    /\ call.fn = "drop"
    /\ call' = [fn |-> "drop_again", n |-> num_turns]
    /\ ret' = drop_last_n_user_turns_from_response_items(ret, num_turns)
    /\ UNCHANGED <<rollout_in, items_in>>
    /\ UNCHANGED mgr_vars

NextTrunc ==
    \/ \E n \in NthArgs : TruncateCall(n)
    \/ \E num_turns \in NumTurnsArgs : DropCall(num_turns)
    \/ PositionsInRolloutCall
    \/ PositionsInResponseItemsCall
    \/ \E num_turns \in NumTurnsArgs : DropAgainCall(num_turns)

SpecTrunc == InitTrunc /\ [][NextTrunc]_vars

(***************************************************************************)
(* Properties of the truncation helpers (checked under SpecTrunc)          *)
(***************************************************************************)
\* a user-message boundary, as the module documentation defines it
IsUserBoundary(r) == r.type = "Message" /\ parse_turn_item(r) = "UserMessage"
IsRolloutUserBoundary(x) == x.variant = "ResponseItem" /\ IsUserBoundary(x.item)

\* 1-based positions of the boundaries of a rollout / a transcript
RolloutBoundaries(items) == {i \in 1 .. Len(items) : IsRolloutUserBoundary(items[i])}
Boundaries(items) == {i \in 1 .. Len(items) : IsUserBoundary(items[i])}

\* C7: when items has more than n user-message boundaries, the from-start
\* truncation is the prefix of items that ends right before the boundary that
\* has exactly n boundaries in front of it (the n-th, 0-based): original
\* order, the boundary entry and everything after it left out.
C7_TruncateIsPrefixBeforeNthBoundary ==
    (call.fn = "truncate" /\ call.n < Cardinality(RolloutBoundaries(rollout_in)))
    => \E c \in RolloutBoundaries(rollout_in) :
          /\ Cardinality({i \in RolloutBoundaries(rollout_in) : i < c}) = call.n
          /\ ret = SubSeq(rollout_in, 1, c - 1)

\* a cut at the second user message of a rollout that opens with other entries
C7_Witness ==
    /\ call.fn = "truncate" /\ call.n = 1
    /\ Cardinality(RolloutBoundaries(rollout_in)) = 2
    /\ ~IsRolloutUserBoundary(rollout_in[1])
    /\ Len(ret) >= 2

\* C8: when items has at most n user-message boundaries, the from-start
\* truncation is the empty sequence, whatever else items holds.
C8_TruncateOutOfRangeIsEmpty ==
    (call.fn = "truncate" /\ Cardinality(RolloutBoundaries(rollout_in)) <= call.n)
    => ret = <<>>

\* n equals the number of user messages of a rollout that opens with a
\* non-boundary entry
C8_Witness ==
    /\ call.fn = "truncate"
    /\ Cardinality(RolloutBoundaries(rollout_in)) = call.n
    /\ call.n >= 1
    /\ ~IsRolloutUserBoundary(rollout_in[1])
    /\ ret = <<>>

\* C9: when items has a user-message boundary and num_turns is at least the
\* number of boundaries, the from-end drop returns exactly the entries in
\* front of the first boundary.
C9_DropAllKeepsSessionPrefix ==
    (/\ call.fn = "drop"
     /\ Boundaries(items_in) # {}
     /\ call.n >= Cardinality(Boundaries(items_in)))
    => \E c \in Boundaries(items_in) :
          /\ \A i \in Boundaries(items_in) : c <= i
          /\ ret = SubSeq(items_in, 1, c - 1)

\* every turn of a transcript with a session prefix and two user turns dropped
C9_Witness ==
    /\ call.fn = "drop" /\ call.n = ManyTurns
    /\ Cardinality(Boundaries(items_in)) = 2
    /\ ~IsUserBoundary(items_in[1])
    /\ Len(ret) >= 1

\* C10: when 1 <= num_turns < k, k the number of boundaries, the from-end
\* drop returns the entries in front of the boundary that has exactly
\* num_turns boundaries from it to the end (itself included): the last
\* num_turns user messages and all that follows the earliest of them go.
C10_DropCutsAtNthBoundaryFromEnd ==
    (/\ call.fn = "drop"
     /\ 1 <= call.n
     /\ call.n < Cardinality(Boundaries(items_in)))
    => \E c \in Boundaries(items_in) :
          /\ Cardinality({i \in Boundaries(items_in) : i >= c}) = call.n
          /\ ret = SubSeq(items_in, 1, c - 1)

\* one of two user turns dropped, the first one and its reply kept
C10_Witness ==
    /\ call.fn = "drop" /\ call.n = 1
    /\ Cardinality(Boundaries(items_in)) = 2
    /\ Len(ret) >= 2
    /\ IsUserBoundary(ret[1])

\* C11: a drop of zero turns returns the transcript as it is, however many
\* user-message boundaries it has.
C11_DropZeroIsIdentity ==
    (call.fn = "drop" /\ call.n = 0) => ret = items_in

\* zero turns dropped from a transcript with two user turns
C11_Witness ==
    /\ call.fn = "drop" /\ call.n = 0
    /\ Cardinality(Boundaries(items_in)) = 2
    /\ Len(ret) >= 3

\* C12: a transcript without a user-message boundary is returned as it is by
\* the from-end drop, for every num_turns, also one beyond its length.
C12_DropWithoutBoundaryIsIdentity ==
    (call.fn = "drop" /\ Boundaries(items_in) = {}) => ret = items_in

\* more turns than entries dropped from a transcript that holds only
\* session-prefix and non-message entries
C12_Witness ==
    /\ call.fn = "drop" /\ call.n > Len(items_in)
    /\ Len(items_in) >= 2
    /\ Boundaries(items_in) = {}
    /\ \E i \in 1 .. Len(items_in) : items_in[i] = PrefixMsg
    /\ Len(ret) >= 2

\* the indices a positions function returned
PositionSet(positions) == {positions[i] : i \in 1 .. Len(positions)}
StrictlyAscending(positions) ==
    \A i \in 1 .. Len(positions), j \in 1 .. Len(positions) :
        i < j => positions[i] < positions[j]

\* C18: both positions functions return, strictly ascending, exactly the
\* (0-based) indices of the entries that are Message entries the classifier
\* makes a UserMessage; no index of a reasoning entry, a function call,
\* another non-message entry or a message classified otherwise is returned.
C18_PositionsAreExactlyUserMessages ==
    /\ call.fn = "positions_in_rollout"
       => /\ StrictlyAscending(ret)
          /\ PositionSet(ret) \subseteq 0 .. (Len(rollout_in) - 1)
          /\ \A idx \in 0 .. (Len(rollout_in) - 1) :
                 idx \in PositionSet(ret)
                 <=> /\ rollout_in[idx + 1].variant = "ResponseItem"
                     /\ rollout_in[idx + 1].item.type = "Message"
                     /\ parse_turn_item(rollout_in[idx + 1].item) = "UserMessage"
    /\ call.fn = "positions_in_response_items"
       => /\ StrictlyAscending(ret)
          /\ PositionSet(ret) \subseteq 0 .. (Len(items_in) - 1)
          /\ \A idx \in 0 .. (Len(items_in) - 1) :
                 idx \in PositionSet(ret)
                 <=> /\ items_in[idx + 1].type = "Message"
                     /\ parse_turn_item(items_in[idx + 1]) = "UserMessage"

\* two user messages found behind a session-prefix message, with a
\* non-message entry between them
C18_Witness ==
    /\ call.fn = "positions_in_response_items"
    /\ ret = <<1, 3>>
    /\ items_in[1] = PrefixMsg
    /\ items_in[3] \in {ReasoningItem, FunctionCallItem}

\* the transcript as the rollout entries that record it
WrapAll(items) == [i \in 1 .. Len(items) |-> WrapResponseItem(items[i])]

\* C19: with k the number of boundaries and 1 <= m <= k, the from-end drop
\* at m returns the entries that the from-start truncation of the same
\* entries at n = k - m returns.  Out of range they differ: the from-start
\* truncation at any n >= k is empty, the from-end drop at m > k keeps the
\* entries in front of the first user message.
C19_FromEndIsFromStartAtKMinusM ==
    call.fn = "drop"
    => LET k == Cardinality(Boundaries(items_in))
           m == call.n
       IN  /\ (1 <= m /\ m <= k)
               => WrapAll(ret) = truncate_rollout_before_nth_user_message_from_start(
                                     WrapAll(items_in), k - m)
           /\ \A n \in NthArgs :
                  n >= k => truncate_rollout_before_nth_user_message_from_start(
                                WrapAll(items_in), n) = <<>>
           /\ (m > k /\ k >= 1)
               => \E c \in Boundaries(items_in) :
                     /\ \A i \in Boundaries(items_in) : c <= i
                     /\ ret = SubSeq(items_in, 1, c - 1)

\* two of three user turns dropped from a transcript with a session prefix:
\* what is left ends with the first user turn
C19_Witness ==
    /\ call.fn = "drop" /\ call.n = 2
    /\ Cardinality(Boundaries(items_in)) = 3
    /\ ~IsUserBoundary(items_in[1])
    /\ Len(ret) = 2 /\ IsUserBoundary(ret[2])

\* C20: a rollback of b turns applied to the result of a rollback of a turns
\* returns what one rollback of a + b turns of the original transcript
\* returns; when the first rollback left no user turn, the second returns
\* its input, session prefix included.
C20_RollbacksCompose ==
    [][(call.fn = "drop" /\ call'.fn = "drop_again")
       => /\ ret' = drop_last_n_user_turns_from_response_items(items_in, call.n + call'.n)
          /\ Boundaries(ret) = {} => ret' = ret]_vars

\* one turn dropped twice from a transcript of three user turns
C20_Witness ==
    /\ call.fn = "drop_again" /\ call.n = 1
    /\ Cardinality(Boundaries(items_in)) = 3
    /\ Cardinality(Boundaries(ret)) = 1

====
